---- MODULE Spec2Model ----
(***************************************************************************)
(* A model of bitvec-rs (src/src/lib.rs): the BitVec struct { nbits, vec }, *)
(* its constructors and its getters / setters / push / pop / truncate /     *)
(* resize, each translated from the Rust source.                            *)
(*                                                                          *)
(* A BitVec value is the record [nbits |-> n, vec |-> <<b1, ..., bk>>]      *)
(* with every b in 0..255 (a u8).  TLA+ sequences are 1-based, so byte i of *)
(* the Rust Vec<u8> is vec[i + 1].                                          *)
(*                                                                          *)
(* Every method is a pure operator from the receiver (and the arguments) to *)
(* an outcome [self, ret, fail]: the receiver after the call, the returned  *)
(* value (an Option<bool> is <<>> for None and <<b>> for Some(b); a unit     *)
(* return is <<>>) and the panic that ended the call, if any.  One action   *)
(* per method applies the operator to the vector the state holds and        *)
(* records the call.                                                        *)
(*                                                                          *)
(* Spec follows the vector alone.  SpecEq adds a clone of it, SpecBytes and *)
(* SpecElem build longer vectors and read them, SpecIter walks an iterator  *)
(* over a vector, and SpecCap follows the capacity of the Vec as well.      *)
(* SpecDisplay formats vectors, SpecRegrow shortens a vector and grows it  *)
(* again beside a clone of what it was, and SpecHuge is Spec with lengths   *)
(* at the top of usize.                                                     *)
(***************************************************************************)
EXTENDS Integers, Sequences, FiniteSets

VARIABLES
    nbits,   \* BitVec::nbits (lib.rs:37)
    vec,     \* BitVec::vec   (lib.rs:38), a sequence of u8
    op,      \* the method whose call is being observed, "idle" between calls
    arg,     \* that call's arguments
    ret,     \* that call's return value
    fail,    \* the panic that call ended with, NoFail when it returned
    old,     \* the receiver before that call
    mark,    \* the vector at the start of the current run of pushes and pops
    trail,   \* the values pushed since mark and not popped yet
    due,     \* on a pop inside such a run: <<the value pushed last>>
    other,   \* a second BitVec: a clone taken of the first
    cap,     \* Vec::capacity() of vec, in bytes: <<c>>, or <<>> where the
             \* specification does not follow the capacity
    iter_index  \* Iter::index / IntoIter::index (lib.rs:507, 514): the cursor of
             \* the iterator over the vector

vars == <<nbits, vec, op, arg, ret, fail, old, mark, trail, due, other, cap, iter_index>>

----------------------------------------------------------------------------
(* Bounds of the model. *)

\* Vectors grow to at most MaxBits bits.
MaxBits == 9

\* A run of pushes is followed for at most MaxTrail values.
MaxTrail == 3

\* SpecEq, which holds two vectors, lets each grow to at most MaxBitsEq bits.
MaxBitsEq == 4

\* SpecCap, which follows the capacity, lets the vector grow to at most
\* MaxBitsCap bits.
MaxBitsCap == 4

\* An allocation that has to grow takes up to MaxSpare bytes more than asked.
MaxSpare == 1

\* The bytes callers hand in (from_bytes, with_bytes_mut): all zeros, all
\* ones, and 0xA5 = 0b10100101.
ByteSamples == {0, 255, 165}

BOOL == {TRUE, FALSE}

----------------------------------------------------------------------------
(* u8 arithmetic. *)

\* The number of values of a u8.
U8Count == 256

RECURSIVE Pow2(_)
Pow2(k) == IF k = 0 THEN 1 ELSE 2 * Pow2(k - 1)

RECURSIVE AndBits(_, _, _)
AndBits(a, b, n) ==
    IF n = 0 THEN 0
    ELSE (a % 2) * (b % 2) + 2 * AndBits(a \div 2, b \div 2, n - 1)

\* a & b on u8
BitAnd(a, b) == AndBits(a, b, 8)

\* !a on u8
BitNot(a) == (U8Count - 1) - a

\* a | b on u8 (De Morgan on the 8 bits)
BitOr(a, b) == BitNot(BitAnd(BitNot(a), BitNot(b)))

\* 1u8 << k, for the k in 0..7 the code shifts by
Shl1(k) == Pow2(k) % U8Count

\* The width of usize.  It is the target's pointer width; 16 is the width on
\* the 16-bit targets (avr, msp430), the only one TLC's integers can hold
\* (32- and 64-bit usize values pass 2^31 - 1).  The code's arithmetic is
\* the same at every width.
UsizeBits == 16

\* The number of values of a usize, and usize::MAX.
UsizeCount == Pow2(UsizeBits)
UsizeMax == UsizeCount - 1

----------------------------------------------------------------------------
(* Values. *)

BitVec(n, v) == [nbits |-> n, vec |-> v]

None == <<>>
Some(b) == <<b>>

NoFail == "none"

\* An outcome: the call returned r and left the receiver as s.
Done(s, r) == [self |-> s, ret |-> r, fail |-> NoFail]

\* An outcome: the call panicked with f and left the receiver as s.
Panic(s, f) == [self |-> s, ret |-> None, fail |-> f]

Min(a, b) == IF a < b THEN a ELSE b

----------------------------------------------------------------------------
(* Helpers of the source (lib.rs:75-82). *)

\* (nbits + 7) / 8 on usize.  The sum passes usize::MAX for the last seven
\* values of nbits: a build with overflow checks (debug) panics there, a
\* build without (release) wraps, which is what this operator computes.
bytes_in_bits(n) == ((n + 7) % UsizeCount) \div 8

\* The sum in bytes_in_bits overflows.
bytes_in_bits_overflows(n) == n + 7 > UsizeMax

AddOverflow == "attempt to add with overflow"

byte_from_bool(bit) == IF bit THEN BitNot(0) ELSE 0

----------------------------------------------------------------------------
(* Unchecked bit access (lib.rs:211-224).  Vec::get_unchecked on a byte     *)
(* that is not there is undefined behaviour: the callers below test InVec   *)
(* first and end the call with the failure UB, which stands for every       *)
(* outcome the build may produce.                                           *)

UB == "undefined behaviour: byte index out of range"

\* index / 8 is a byte of the Vec
InVec(s, index) == index \div 8 < Len(s.vec)

\* get_unchecked counting the bits of a byte from the most significant one.
get_unchecked_msb0(s, index) ==
    LET byte    == s.vec[index \div 8 + 1]
        pattern == Shl1(7 - (index % 8))
    IN  BitAnd(byte, pattern) # 0

get_unchecked(s, index) ==
    LET byte    == s.vec[index \div 8 + 1]
        pattern == Shl1(index % 8)
    IN  BitAnd(byte, pattern) # 0

\* set_unchecked that sets the bit for true and leaves it for false.
set_unchecked_sets_only(s, index, value) ==
    LET byte    == s.vec[index \div 8 + 1]
        pattern == Shl1(index % 8)
    IN  BitVec(s.nbits,
               [s.vec EXCEPT ![index \div 8 + 1] =
                    IF value THEN BitOr(byte, pattern) ELSE byte])

set_unchecked(s, index, value) ==
    LET byte    == s.vec[index \div 8 + 1]
        pattern == Shl1(index % 8)
    IN  BitVec(s.nbits,
               [s.vec EXCEPT ![index \div 8 + 1] =
                    IF value THEN BitOr(byte, pattern)
                    ELSE BitAnd(byte, BitNot(pattern))])

----------------------------------------------------------------------------
(* The helper that restores the padding (lib.rs:308-318). *)

AssertLenPositive == "assertion failed: len > 0"

\* set_unused_zero leaving the last byte as it is.
set_unused_zero_skipped(s) == Done(s, None)

set_unused_zero(s) ==
    IF s.nbits % 8 = 0 THEN Done(s, None)
    ELSE LET len == Len(s.vec) IN
         IF ~(len > 0) THEN Panic(s, AssertLenPositive)
         ELSE LET pattern == (Shl1(s.nbits % 8) + U8Count - 1) % U8Count
              IN  Done(BitVec(s.nbits,
                              [s.vec EXCEPT ![len] = BitAnd(@, pattern)]),
                       None)

----------------------------------------------------------------------------
(* Constructors (lib.rs:101-144). *)

new == BitVec(0, <<>>)

\* Vec::with_capacity allocates and holds no byte.
with_capacity(capacity) == BitVec(0, <<>>)

\* from_bytes taking the number of bytes for the number of bits.
from_bytes_byte_count(bytes) == set_unused_zero(BitVec(Len(bytes), bytes))

from_bytes(bytes) == set_unused_zero(BitVec(Len(bytes) * 8, bytes))

\* from_elem returning without set_unused_zero.
from_elem_unmasked(len, value) ==
    Done(BitVec(len, [i \in 1..bytes_in_bits(len) |-> byte_from_bool(value)]),
         None)

from_elem(len, value) ==
    set_unused_zero(BitVec(len,
                           [i \in 1..bytes_in_bits(len) |-> byte_from_bool(value)]))

\* from_elem in a build with overflow checks: bytes_in_bits panics on the
\* sum, before there is a vector.
from_elem_checked(len, value) ==
    IF bytes_in_bits_overflows(len) THEN Panic(new, AddOverflow)
    ELSE from_elem(len, value)

----------------------------------------------------------------------------
(* Views and getters (lib.rs:152-191). *)

as_bytes(s) == s.vec

into_bytes(s) == s.vec

len(s) == s.nbits

is_empty(s) == s.nbits = 0

AssertNbitsFit == "Expected #bits <= 8 x (#bytes in vec)"
IndexOutOfBounds == "Index out of bounds"

\* validate_index letting index == nbits through.
validate_index_inclusive(s, index) ==
    IF ~(s.nbits <= Len(s.vec) * 8) THEN AssertNbitsFit
    ELSE IF index > s.nbits THEN IndexOutOfBounds
    ELSE NoFail

\* NoFail when validate_index returns, else the panic it raises.
validate_index(s, index) ==
    IF ~(s.nbits <= Len(s.vec) * 8) THEN AssertNbitsFit
    ELSE IF index >= s.nbits THEN IndexOutOfBounds
    ELSE NoFail

get(s, index) ==
    IF index < len(s)
    THEN IF InVec(s, index) THEN Done(s, Some(get_unchecked(s, index)))
         ELSE Panic(s, UB)
    ELSE Done(s, None)

\* f is given as the set of byte positions it writes and the value it
\* writes there; the other bytes keep what they held.
f_writes(bytes, f) ==
    [i \in 1..Len(bytes) |-> IF i \in f.at THEN f.val ELSE bytes[i]]

\* with_bytes_mut returning without set_unused_zero.
with_bytes_mut_unmasked(s, f) == Done(BitVec(s.nbits, f_writes(s.vec, f)), None)

with_bytes_mut(s, f) == set_unused_zero(BitVec(s.nbits, f_writes(s.vec, f)))

----------------------------------------------------------------------------
(* Setters (lib.rs:193-209). *)

set(s, index, value) ==
    LET v == validate_index(s, index) IN
    IF v # NoFail THEN Panic(s, v)
    ELSE IF ~InVec(s, index) THEN Panic(s, UB)
    ELSE Done(set_unchecked(s, index, value), None)

\* swap reading bit i after it has written it.
swap_reads_late(s, i, j) ==
    LET vi == validate_index(s, i)
        vj == validate_index(s, j)
    IN  IF vi # NoFail THEN Panic(s, vi)
        ELSE IF vj # NoFail THEN Panic(s, vj)
        ELSE IF ~(InVec(s, i) /\ InVec(s, j)) THEN Panic(s, UB)
        ELSE LET val_j == get_unchecked(s, j)
                 s1    == set_unchecked(s, i, val_j)
                 val_i == get_unchecked(s1, i)
             IN  Done(set_unchecked(s1, j, val_i), None)

swap(s, i, j) ==
    LET vi == validate_index(s, i)
        vj == validate_index(s, j)
    IN  IF vi # NoFail THEN Panic(s, vi)
        ELSE IF vj # NoFail THEN Panic(s, vj)
        ELSE IF ~(InVec(s, i) /\ InVec(s, j)) THEN Panic(s, UB)
        ELSE LET val_i == get_unchecked(s, i)
                 val_j == get_unchecked(s, j)
                 s1    == set_unchecked(s, i, val_j)
             IN  Done(set_unchecked(s1, j, val_i), None)

----------------------------------------------------------------------------
(* The index operator (lib.rs:606-615). *)

AssertIndexInRange == "assertion failed: index < self.len()"

index_op(s, index) ==
    IF ~(index < len(s)) THEN Panic(s, AssertIndexInRange)
    ELSE IF ~InVec(s, index) THEN Panic(s, UB)
    ELSE Done(s, Some(get_unchecked(s, index)))

----------------------------------------------------------------------------
(* Adding and removing bits (lib.rs:226-302). *)

\* push appending byte_from_bool(value), all ones for true.
push_byte_from_bool(s, value) ==
    LET n == s.nbits IN
    IF n % 8 = 0
    THEN Done(BitVec(n + 1, Append(s.vec, byte_from_bool(value))), None)
    ELSE IF ~InVec(s, n) THEN Panic(s, UB)
    ELSE Done(BitVec(n + 1, set_unchecked(s, n, value).vec), None)

\* push that takes the bit of a partly used byte as it finds it.
push_keeps_bit(s, value) ==
    LET n == s.nbits IN
    IF n % 8 = 0
    THEN Done(BitVec(n + 1, Append(s.vec, IF value THEN 1 ELSE 0)), None)
    ELSE IF ~InVec(s, n) THEN Panic(s, UB)
    ELSE Done(BitVec(n + 1, s.vec), None)

push(s, value) ==
    LET n == s.nbits IN
    IF n % 8 = 0
    THEN Done(BitVec(n + 1, Append(s.vec, IF value THEN 1 ELSE 0)), None)
    ELSE IF ~InVec(s, n) THEN Panic(s, UB)
    ELSE Done(BitVec(n + 1, set_unchecked(s, n, value).vec), None)

AssertPopAligned == "Expected #bits == 8 x (#bytes in vec - 1) after bit pop and before vec pop."

\* pop that does not set the popped bit to 0.
pop_leaves_bit(s) ==
    IF s.nbits = 0 THEN Done(s, None)
    ELSE LET n  == s.nbits - 1
             s1 == BitVec(n, s.vec)
         IN  IF ~InVec(s1, n) THEN Panic(s1, UB)
             ELSE LET value == get_unchecked(s1, n)
                  IN  IF n % 8 = 0
                      THEN Done(BitVec(n, SubSeq(s1.vec, 1, Len(s1.vec) - 1)),
                                Some(value))
                      ELSE Done(s1, Some(value))

\* pop that never pops the last byte off the Vec.
pop_keeps_byte(s) ==
    IF s.nbits = 0 THEN Done(s, None)
    ELSE LET n  == s.nbits - 1
             s1 == BitVec(n, s.vec)
         IN  IF ~InVec(s1, n) THEN Panic(s1, UB)
             ELSE Done(set_unchecked(s1, n, FALSE), Some(get_unchecked(s1, n)))

pop(s) ==
    IF s.nbits = 0 THEN Done(s, None)
    ELSE LET n  == s.nbits - 1
             s1 == BitVec(n, s.vec)
         IN  IF ~InVec(s1, n) THEN Panic(s1, UB)
             ELSE LET value == get_unchecked(s1, n)
                      s2    == set_unchecked(s1, n, FALSE)
                  IN  IF n % 8 = 0
                      THEN IF ~(n = (Len(s2.vec) - 1) * 8)
                           THEN Panic(s2, AssertPopAligned)
                           ELSE Done(BitVec(n, SubSeq(s2.vec, 1, Len(s2.vec) - 1)),
                                     Some(value))
                      ELSE Done(s2, Some(value))

clear(s) == Done(BitVec(0, <<>>), None)

\* Vec::reserve changes the capacity only: the bytes and their count stay.
reserve(s, additional) == Done(s, None)

\* reserve in a build with overflow checks: bytes_in_bits panics on the sum.
reserve_checked(s, additional) ==
    IF bytes_in_bits_overflows(additional) THEN Panic(s, AddOverflow)
    ELSE reserve(s, additional)

\* The byte capacity reserve makes sure of: Vec::reserve(n) returns with
\* capacity >= len + n, and does nothing when the capacity is already that.
reserve_needs(s, additional) == Len(s.vec) + bytes_in_bits(additional)

\* The byte capacity push makes sure of: Vec::push needs room for one more
\* byte, and push reaches it only on a byte boundary.
push_needs(s) == IF s.nbits % 8 = 0 THEN Len(s.vec) + 1 ELSE 0

\* vec.capacity() * 8 on usize, for a Vec of capacity c bytes.
capacity_of(c) == (c * 8) % UsizeCount

\* truncate that sets nbits and leaves the Vec at its length.
truncate_keeps_bytes(s, length) ==
    IF length < len(s)
    THEN set_unused_zero(BitVec(length, s.vec))
    ELSE Done(s, None)

\* truncate returning without set_unused_zero.
truncate_unmasked(s, length) ==
    IF length < len(s)
    THEN Done(BitVec(length,
                     SubSeq(s.vec, 1, Min(bytes_in_bits(length), Len(s.vec)))),
              None)
    ELSE Done(s, None)

\* truncate keeping length / 8 bytes, the partly used byte dropped.
truncate_whole_bytes(s, length) ==
    IF length < len(s)
    THEN set_unused_zero(BitVec(length, SubSeq(s.vec, 1, length \div 8)))
    ELSE Done(s, None)

truncate(s, length) ==
    IF length < len(s)
    THEN LET nbytes == bytes_in_bits(length)
         IN  set_unused_zero(BitVec(length,
                                    SubSeq(s.vec, 1, Min(nbytes, Len(s.vec)))))
    ELSE Done(s, None)

\* for _ in 0..additional { self.push(value) }
RECURSIVE push_times(_, _, _)
push_times(s, additional, value) ==
    IF additional = 0 THEN Done(s, None)
    ELSE LET o == push(s, value)
         IN  IF o.fail # NoFail THEN o
             ELSE push_times(o.self, additional - 1, value)

\* resize pushing new_len values, the bits already there not taken off.
resize_pushes_new_len(s, new_len, value) ==
    IF new_len > len(s)
    THEN push_times(reserve(s, new_len).self, new_len, value)
    ELSE truncate(s, new_len)

resize(s, new_len, value) ==
    IF new_len > len(s)
    THEN LET additional == new_len - len(s)
         IN  push_times(reserve(s, additional).self, additional, value)
    ELSE truncate(s, new_len)

\* for &b in bools { vec.push(b) }
RECURSIVE push_each(_, _)
push_each(s, bools) ==
    IF bools = <<>> THEN Done(s, None)
    ELSE LET o == push(s, Head(bools))
         IN  IF o.fail # NoFail THEN o
             ELSE push_each(o.self, Tail(bools))

RECURSIVE Reverse(_)
Reverse(q) == IF q = <<>> THEN <<>> ELSE Append(Reverse(Tail(q)), Head(q))

\* from_bools pushing the slice from its end.
from_bools_reversed(bools) == push_each(with_capacity(Len(bools)), Reverse(bools))

from_bools(bools) == push_each(with_capacity(Len(bools)), bools)

\* Extend (lib.rs:386-406), on an iterator that yields `bools` and whose
\* size_hint is their number.
extend(s, bools) == push_each(reserve(s, Len(bools)).self, bools)

\* FromIterator (lib.rs:408-430), on an iterator that yields `bools` and
\* whose size_hint is their number.
from_iter(bools) == push_each(with_capacity(Len(bools)), bools)

\* From<&[bool]>, From<&Vec<bool>>, From<Vec<bool>> (lib.rs:432-448)
from(bools) == from_bools(bools)

----------------------------------------------------------------------------
(* Iterators (lib.rs:453-545).  Iter and IntoIter hold the vector (borrowed *)
(* or owned) and a cursor, and share the one body impl_iter!: an iterator   *)
(* is the record [vec |-> the BitVec, index |-> the cursor].  The methods   *)
(* return outcomes as above, self being the iterator.                       *)

Iter(v, i) == [vec |-> v, index |-> i]

\* IntoIterator for &BitVec and for BitVec
into_iter(v) == Iter(v, 0)

iter(v) == into_iter(v)

\* a - b on usize, in a build without overflow checks; with them the
\* subtraction panics when b > a.
usize_sub(a, b) == (a - b) % UsizeCount

size_hint(it) ==
    LET remaining == usize_sub(len(it.vec), it.index)
    IN  Done(it, <<remaining, Some(remaining)>>)

count(it) == Done(it, <<usize_sub(len(it.vec), it.index)>>)

\* last answering for the vector, not for what is left of it.
last_of_vec(it) ==
    LET length == len(it.vec) IN
    IF 0 < length
    THEN IF ~InVec(it.vec, length - 1) THEN Panic(it, UB)
         ELSE Done(it, Some(get_unchecked(it.vec, length - 1)))
    ELSE Done(it, None)

last(it) ==
    LET length == len(it.vec) IN
    IF it.index < length
    THEN IF ~InVec(it.vec, length - 1) THEN Panic(it, UB)
         ELSE Done(it, Some(get_unchecked(it.vec, length - 1)))
    ELSE Done(it, None)

\* next reading the bit before the cursor moves on, then skipping one more.
next_skips(it) ==
    IF it.index >= it.vec.nbits THEN Done(it, None)
    ELSE IF ~InVec(it.vec, it.index) THEN Panic(it, UB)
    ELSE Done(Iter(it.vec, Min(it.index + 2, it.vec.nbits)),
              Some(get_unchecked(it.vec, it.index)))

\* next moving the cursor on at the end of the vector too.
next_counts_on(it) ==
    IF it.index >= it.vec.nbits THEN Done(Iter(it.vec, it.index + 1), None)
    ELSE IF ~InVec(it.vec, it.index) THEN Panic(it, UB)
    ELSE Done(Iter(it.vec, it.index + 1),
              Some(get_unchecked(it.vec, it.index)))

next(it) ==
    IF it.index >= it.vec.nbits THEN Done(it, None)
    ELSE IF ~InVec(it.vec, it.index) THEN Panic(it, UB)
    ELSE Done(Iter(it.vec, it.index + 1),
              Some(get_unchecked(it.vec, it.index)))

\* nth adding n to the cursor wherever that leads.
nth_unpinned(it, n) == next(Iter(it.vec, it.index + n))

nth(it, n) ==
    LET moved == IF n >= usize_sub(it.vec.nbits, it.index) THEN it.vec.nbits
                 ELSE it.index + n
    IN  next(Iter(it.vec, moved))

\* Iterator::collect into a Vec<bool>: next until it returns None.
RECURSIVE collect(_)
collect(it) ==
    LET o == next(it)
    IN  IF o.fail # NoFail \/ o.ret = None THEN <<>>
        ELSE <<o.ret[1]>> \o collect(o.self)

----------------------------------------------------------------------------
(* Display (lib.rs:348-360).  The text written is a sequence of one-        *)
(* character strings.  A write that fails ends fmt with the writer's        *)
(* error; the writer here is the String of format!, which takes every       *)
(* write.                                                                   *)

\* fmt writing the separator after every eighth bit, the last one included.
RECURSIVE fmt_sep_after(_, _)
fmt_sep_after(vals, first) ==
    IF vals = <<>> THEN <<>>
    ELSE <<IF Head(vals) THEN "1" ELSE ".">>
         \o (IF first % 8 = 7 THEN <<" ">> ELSE <<>>)
         \o fmt_sep_after(Tail(vals), first + 1)

\* The loop of fmt over the values `vals`, zipped with first, first + 1, ...
RECURSIVE fmt_loop(_, _)
fmt_loop(vals, first) ==
    IF vals = <<>> THEN <<>>
    ELSE (IF first > 0 /\ first % 8 = 0 THEN <<" ">> ELSE <<>>)
         \o <<IF Head(vals) THEN "1" ELSE ".">>
         \o fmt_loop(Tail(vals), first + 1)

\* self.iter().zip(0..usize::max_value()): the range ends the zip after
\* usize::MAX values.
fmt(s) ==
    LET vals == collect(iter(s))
    IN  Done(s, fmt_loop(SubSeq(vals, 1, Min(Len(vals), UsizeMax)), 0))

----------------------------------------------------------------------------
(* The state machine.  The state holds one BitVec (nbits, vec) and the call *)
(* last made on it.  A call is made when no other is being observed; a      *)
(* call that returned is then left behind by Return, and a call that        *)
(* panicked ends the run (the panics are fatal).                            *)

self == BitVec(nbits, vec)

IndexRange == 0..MaxBits

\* The second index of a swap: the first and the last bit of the first byte,
\* the first bit of the second byte, and an index no vector reaches.
SwapPartners == {0, 7, 8, MaxBits}

RECURSIVE SeqsUpTo(_, _)
SeqsUpTo(S, n) ==
    IF n = 0 THEN {<<>>}
    ELSE LET shorter == SeqsUpTo(S, n - 1)
         IN  shorter \cup {Append(q, x) : q \in {r \in shorter : Len(r) = n - 1}, x \in S}

\* The functions f the callers of with_bytes_mut pass.
Writers == [at : SUBSET (1..bytes_in_bits(MaxBits)), val : ByteSamples]

Idle == op = "idle" /\ fail = NoFail

\* The capacity where the specification does not follow it.
Unobserved == <<>>

\* A call that makes sure of `need` bytes of capacity: the Vec keeps its
\* allocation when that is enough and takes a new one of at least `need`
\* bytes when not.
Ensure(need) ==
    cap' \in IF cap = Unobserved THEN {Unobserved}
             ELSE IF cap[1] >= need THEN {cap}
             ELSE {<<c>> : c \in need..(need + MaxSpare)}

\* The call `name(args)` on the vector of the state ended as outcome o.
Made(name, args, o) ==
    /\ Idle
    /\ nbits' = o.self.nbits
    /\ vec' = o.self.vec
    /\ op' = name
    /\ arg' = args
    /\ ret' = o.ret
    /\ fail' = o.fail
    /\ old' = self
    /\ other' = other
    /\ iter_index' = iter_index

\* A call that leaves the allocation of the Vec alone.
Call(name, args, o) == Made(name, args, o) /\ cap' = cap

\* A call other than push and pop starts a new run of pushes and pops.
NewRun(o) ==
    /\ mark' = o.self
    /\ trail' = <<>>
    /\ due' = None

\* The state a constructor call leaves.
Constructed(name, args, o) ==
    /\ nbits = o.self.nbits
    /\ vec = o.self.vec
    /\ op = name
    /\ arg = args
    /\ ret = None
    /\ fail = o.fail
    /\ old = new
    /\ mark = o.self
    /\ trail = <<>>
    /\ due = None
    /\ other = new
    /\ iter_index = 0

InitNew == Constructed("new", <<>>, Done(new, None))

InitWithCapacity ==
    \E capacity \in IndexRange :
        Constructed("with_capacity", <<capacity>>, Done(with_capacity(capacity), None))

InitFromBytes ==
    \E bytes \in SeqsUpTo(ByteSamples, MaxBits \div 8) :
        Constructed("from_bytes", <<bytes>>, from_bytes(bytes))

InitFromBools ==
    \E bools \in SeqsUpTo(BOOL, MaxBits) :
        Constructed("from_bools", <<bools>>, from_bools(bools))

InitFromElem ==
    \E length \in IndexRange, value \in BOOL :
        Constructed("from_elem", <<length, value>>, from_elem(length, value))

Constructors ==
    \/ InitNew
    \/ InitWithCapacity
    \/ InitFromBytes
    \/ InitFromBools
    \/ InitFromElem

Init == Constructors /\ cap = Unobserved

Get(index) == Call("get", <<index>>, get(self, index)) /\ NewRun(get(self, index))

Index(index) ==
    Call("index", <<index>>, index_op(self, index)) /\ NewRun(index_op(self, index))

Set(index, value) ==
    Call("set", <<index, value>>, set(self, index, value))
    /\ NewRun(set(self, index, value))

Swap(i, j) == Call("swap", <<i, j>>, swap(self, i, j)) /\ NewRun(swap(self, i, j))

WithBytesMut(f) ==
    /\ f.at \subseteq 1..Len(vec)
    /\ Call("with_bytes_mut", <<f_writes(vec, f)>>, with_bytes_mut(self, f))
    /\ NewRun(with_bytes_mut(self, f))

Push(value) ==
    /\ nbits < MaxBits
    /\ Made("push", <<value>>, push(self, value))
    /\ Ensure(push_needs(self))
    /\ due' = None
    /\ IF Len(trail) < MaxTrail
       THEN mark' = mark /\ trail' = Append(trail, value)
       ELSE mark' = push(self, value).self /\ trail' = <<>>

Pop ==
    /\ Call("pop", <<>>, pop(self))
    /\ IF trail # <<>>
       THEN /\ mark' = mark
            /\ trail' = SubSeq(trail, 1, Len(trail) - 1)
            /\ due' = Some(trail[Len(trail)])
       ELSE NewRun(pop(self))

Clear == Call("clear", <<>>, clear(self)) /\ NewRun(clear(self))

\* overflow_checks is the build: with the checks (debug) or without (release).
Reserve(additional, overflow_checks) ==
    LET o == IF overflow_checks THEN reserve_checked(self, additional)
             ELSE reserve(self, additional)
    IN  /\ Made("reserve", <<additional>>, o)
        /\ Ensure(IF o.fail = NoFail THEN reserve_needs(self, additional) ELSE 0)
        /\ NewRun(o)

Truncate(length) ==
    Call("truncate", <<length>>, truncate(self, length))
    /\ NewRun(truncate(self, length))

Resize(new_len, value) ==
    /\ Made("resize", <<new_len, value>>, resize(self, new_len, value))
    /\ Ensure(IF new_len > len(self)
              THEN reserve_needs(self, new_len - len(self)) ELSE 0)
    /\ NewRun(resize(self, new_len, value))

\* The caller is done with the call it made: the vector stays as it is.
Return ==
    /\ op # "idle"
    /\ fail = NoFail
    /\ op' = "idle"
    /\ arg' = <<>>
    /\ ret' = None
    /\ old' = new
    /\ UNCHANGED <<nbits, vec, fail, mark, trail, due, other, cap, iter_index>>

Next ==
    \/ \E index \in IndexRange : Get(index)
    \/ \E index \in IndexRange : Index(index)
    \/ \E index \in IndexRange, value \in BOOL : Set(index, value)
    \/ \E i \in IndexRange, j \in SwapPartners : Swap(i, j)
    \/ \E f \in Writers : WithBytesMut(f)
    \/ \E value \in BOOL : Push(value)
    \/ Pop
    \/ Clear
    \/ \E additional \in IndexRange, overflow_checks \in BOOL :
          Reserve(additional, overflow_checks)
    \/ \E length \in IndexRange : Truncate(length)
    \/ \E new_len \in IndexRange, value \in BOOL : Resize(new_len, value)
    \/ Return

Spec == Init /\ [][Next]_vars

----------------------------------------------------------------------------
(* Two vectors: the derived Clone and PartialEq (lib.rs:35). *)

\* #[derive(PartialEq)]: field by field; Vec<u8> compares its bytes.
eq(a, b) == a.nbits = b.nbits /\ a.vec = b.vec

\* #[derive(Clone)]
clone(s) == BitVec(s.nbits, s.vec)

Clone ==
    /\ Idle
    /\ other' = clone(self)
    /\ op' = "clone"
    /\ arg' = <<>>
    /\ ret' = None
    /\ old' = self
    /\ NewRun(Done(self, None))
    /\ UNCHANGED <<nbits, vec, fail, cap, iter_index>>

InitEq == Init /\ nbits <= MaxBitsEq

NextEq ==
    \/ Next /\ nbits' <= MaxBitsEq
    \/ Clone

\* The first vector goes through any calls; the second is a clone of it
\* taken at any moment.
SpecEq == InitEq /\ [][NextEq]_vars

----------------------------------------------------------------------------
(* from_bytes on longer inputs, then read. *)

\* from_bytes is given at most MaxBytes bytes.
MaxBytes == 3

InitBytes ==
    \E bytes \in SeqsUpTo(ByteSamples, MaxBytes) :
        /\ Constructed("from_bytes", <<bytes>>, from_bytes(bytes))
        /\ cap = Unobserved

NextBytes ==
    \/ \E index \in 0..(8 * MaxBytes) : Get(index)
    \/ \E index \in 0..(8 * MaxBytes) : Index(index)
    \/ Return

SpecBytes == InitBytes /\ [][NextBytes]_vars

----------------------------------------------------------------------------
(* from_elem on longer vectors, then read. *)

\* from_elem is asked for at most MaxElemLen bits.
MaxElemLen == 32

InitElem ==
    \E length \in 0..MaxElemLen, value \in BOOL :
        /\ Constructed("from_elem", <<length, value>>, from_elem(length, value))
        /\ cap = Unobserved

NextElem ==
    \/ \E index \in 0..MaxElemLen : Get(index)
    \/ \E index \in 0..MaxElemLen : Index(index)
    \/ Return

SpecElem == InitElem /\ [][NextElem]_vars

----------------------------------------------------------------------------
(* An iterator over a vector (lib.rs:453-545).  While an Iter lives the     *)
(* vector is borrowed, and an IntoIter owns it: no method of the vector is  *)
(* called.  count and last take the iterator by value, so they are the      *)
(* last call made on it.                                                    *)

\* The iterator of the state.
it == Iter(self, iter_index)

\* vec.iter() or vec.into_iter() on a vector holding the values `bools`.
InitIter ==
    \E bools \in SeqsUpTo(BOOL, MaxBits) :
        /\ Constructed("into_iter", <<>>, from_bools(bools))
        /\ cap = Unobserved

\* The call `name(args)` on the iterator of the state ended as outcome o.
IterCall(name, args, o) ==
    /\ Idle \/ op = "into_iter"
    /\ fail = NoFail
    /\ iter_index' = o.self.index
    /\ op' = name
    /\ arg' = args
    /\ ret' = o.ret
    /\ fail' = o.fail
    /\ old' = it
    /\ UNCHANGED <<nbits, vec, mark, trail, due, other, cap>>

IterNext == IterCall("next", <<>>, next(it))

IterNth(n) == IterCall("nth", <<n>>, nth(it, n))

IterSizeHint == IterCall("size_hint", <<>>, size_hint(it))

IterCount == IterCall("count", <<>>, count(it))

IterLast == IterCall("last", <<>>, last(it))

\* The caller is done with a call that left it the iterator.
IterReturn == op \in {"next", "nth", "size_hint"} /\ Return

\* The arguments of nth: short of the end, to it, past it, and usize::MAX.
NthSkips == 0..(MaxBits + 1) \cup {UsizeMax}

NextIter ==
    \/ IterNext
    \/ \E n \in NthSkips : IterNth(n)
    \/ IterSizeHint
    \/ IterCount
    \/ IterLast
    \/ IterReturn

SpecIter == InitIter /\ [][NextIter]_vars

----------------------------------------------------------------------------
(* Display of vectors of up to MaxBytes bytes, cut to every length. *)

\* The bytes of test_debug: 0xef, 0xa5, 0x71.
DisplayBytes == {239, 165, 113}

InitDisplay ==
    \E bytes \in SeqsUpTo(DisplayBytes, MaxBytes) :
        /\ Constructed("from_bytes", <<bytes>>, from_bytes(bytes))
        /\ cap = Unobserved

Display == Call("fmt", <<>>, fmt(self)) /\ NewRun(fmt(self))

NextDisplay ==
    \/ \E length \in 0..(8 * MaxBytes) : Truncate(length)
    \/ Display
    \/ Return

SpecDisplay == InitDisplay /\ [][NextDisplay]_vars

----------------------------------------------------------------------------
(* Shrinking and growing again.  The vector is built and a clone of it is   *)
(* kept (other); the vector is then shortened, and from then on grown.      *)

\* extend is given at most MaxExtend values.
MaxExtend == 3

\* The vectors the run starts from: the longest from_elem builds, and what
\* from_bytes builds in Spec.
RegrowStarts ==
    {from_elem(MaxBits, value).self : value \in BOOL}
    \cup {from_bytes(bytes).self : bytes \in SeqsUpTo(ByteSamples, MaxBits \div 8)}

\* The state after `let other = vec.clone()` on a vector just built.
InitRegrow ==
    \E v \in RegrowStarts :
        /\ nbits = v.nbits
        /\ vec = v.vec
        /\ op = "clone"
        /\ arg = <<>>
        /\ ret = None
        /\ fail = NoFail
        /\ old = v
        /\ mark = v
        /\ trail = <<>>
        /\ due = None
        /\ other = clone(v)
        /\ cap = Unobserved
        /\ iter_index = 0

\* a holds the first len(a) bits of b.
IsPrefix(a, b) ==
    /\ len(a) <= len(b)
    /\ \A i \in 0..(len(a) - 1) : get(a, i).ret = get(b, i).ret

Extend(bools) ==
    /\ nbits + Len(bools) <= MaxBits
    /\ Made("extend", <<bools>>, extend(self, bools))
    /\ Ensure(reserve_needs(self, Len(bools)))
    /\ NewRun(extend(self, bools))

\* No call is being observed, and the vector is still a part of the one
\* built: it has not been grown yet.
StillPart == Idle /\ IsPrefix(self, other)

\* The vector is shortened while it is still a part of the one built, and
\* grown at any time.
NextRegrow ==
    \/ StillPart /\ Pop
    \/ StillPart /\ \E length \in IndexRange : Truncate(length)
    \/ StillPart /\ \E new_len \in 0..nbits, value \in BOOL : Resize(new_len, value)
    \/ \E new_len \in (nbits + 1)..MaxBits, value \in BOOL : Resize(new_len, value)
    \/ \E value \in BOOL : Push(value)
    \/ \E bools \in SeqsUpTo(BOOL, MaxExtend) : Extend(bools)
    \/ Return

SpecRegrow == InitRegrow /\ [][NextRegrow]_vars

----------------------------------------------------------------------------
(* The capacity (lib.rs:267-276).  The Vec's allocation is std's: what the  *)
(* model takes from it is the contract of Vec::new (capacity 0),            *)
(* Vec::with_capacity(n) and Vec::from (capacity >= n, >= len),             *)
(* Vec::reserve and Vec::push (Ensure above), and that nothing else changes *)
(* the capacity.                                                            *)

\* The byte capacities a constructor may leave.
InitialCapacities ==
    IF op = "new" THEN {0}
    ELSE LET least == IF op = "with_capacity" THEN bytes_in_bits(arg[1])
                      ELSE Len(vec)
         IN  least..(least + MaxSpare)

InitCap ==
    /\ Constructors
    /\ nbits <= MaxBitsCap
    /\ cap \in {<<c>> : c \in InitialCapacities}

\* The arguments of reserve at the top of usize.
HugeSizes == {UsizeMax - 6, UsizeMax}

Capacity ==
    /\ Call("capacity", <<>>, Done(self, <<capacity_of(cap[1])>>))
    /\ NewRun(Done(self, None))

NextCap ==
    \/ Next /\ nbits' <= MaxBitsCap
    \/ \E additional \in HugeSizes, overflow_checks \in BOOL :
          Reserve(additional, overflow_checks)
    \/ Capacity

SpecCap == InitCap /\ [][NextCap]_vars

----------------------------------------------------------------------------
(* Every call of Spec, and the lengths at the top of usize: from_elem and   *)
(* reserve are also given the values of HugeSizes, in either build.         *)

InitFromElemHuge ==
    \E length \in HugeSizes, value \in BOOL, overflow_checks \in BOOL :
        Constructed("from_elem", <<length, value>>,
                    IF overflow_checks THEN from_elem_checked(length, value)
                    ELSE from_elem(length, value))

InitHuge == (Constructors \/ InitFromElemHuge) /\ cap = Unobserved

NextHuge ==
    \/ Next
    \/ \E additional \in HugeSizes, overflow_checks \in BOOL :
          Reserve(additional, overflow_checks)

SpecHuge == InitHuge /\ [][NextHuge]_vars

----------------------------------------------------------------------------
(* The properties.  They read the bytes with the arithmetic below, not with *)
(* the operators of the model.                                              *)

\* Bit k (0 = least significant) of a byte, as 0 or 1.
Bit(byte, k) == (byte \div Pow2(k)) % 2

\* The last byte of a nonempty byte sequence.
LastByte(bytes) == bytes[Len(bytes)]

\* ceil(n / 8)
CeilDiv8(n) == CHOOSE k \in 0..n : 8 * k >= n /\ 8 * k < n + 8

\* Bits k..7 of the last byte are 0.
PaddingIsZero(bytes, k) ==
    /\ bytes # <<>>
    /\ \A j \in k..7 : Bit(LastByte(bytes), j) = 0

(* C1: zero-padding invariant.  In every state reached from a constructor   *)
(* through any calls, when len() % 8 # 0 every bit of the last byte of      *)
(* as_bytes(), and of into_bytes(), at offset >= len() % 8 is 0.            *)
ZeroPaddingInvariant ==
    len(self) % 8 # 0 =>
        /\ PaddingIsZero(as_bytes(self), len(self) % 8)
        /\ PaddingIsZero(into_bytes(self), len(self) % 8)

\* with_bytes_mut wrote 0xff over both bytes of a 9-bit vector.
ZeroPaddingWitness ==
    /\ op = "with_bytes_mut"
    /\ arg = << <<255, 255>> >>
    /\ len(self) = 9
    /\ as_bytes(self) = <<255, 1>>

(* C2: byte/bit-length relation.  In every reachable state the number of    *)
(* bytes of as_bytes() is ceil(len() / 8).                                  *)
ByteBitLengthRelation == Len(as_bytes(self)) = CeilDiv8(len(self))

\* truncate(8) took a 9-bit vector of two bytes to one byte.
ByteBitLengthWitness ==
    /\ op = "truncate"
    /\ arg = <<8>>
    /\ len(old) = 9
    /\ Len(as_bytes(old)) = 2
    /\ Len(as_bytes(self)) = 1

(* C3: push/pop duality.  After N pushes from any reachable state, each of  *)
(* the next N pops returns Some of the value pushed last among those not    *)
(* popped yet (the pushed values in reverse order), and after the N-th pop  *)
(* len() and as_bytes() are what they were before the pushes.               *)
PushPopDuality ==
    (op = "pop" /\ due # None) =>
        /\ fail = NoFail
        /\ ret = due
        /\ len(self) = len(mark) + Len(trail)
        /\ trail = <<>> => as_bytes(self) = as_bytes(mark)

\* The pop that undoes a push made at 8 bits: the byte the push added is gone.
PushPopDualityWitness ==
    /\ op = "pop"
    /\ due = Some(TRUE)
    /\ trail = <<>>
    /\ len(mark) = 8
    /\ len(old) = 9
    /\ as_bytes(self) = as_bytes(mark)
    /\ Len(as_bytes(old)) = 2

\* Every bit of `after` other than bit `index` is the bit of `before`.
OtherBitsKept(before, after, index) ==
    /\ Len(after) = Len(before)
    /\ \A i \in 1..Len(before) : \A k \in 0..7 :
           8 * (i - 1) + k # index => Bit(after[i], k) = Bit(before[i], k)

\* What push does to a vector whose length is not a multiple of 8, and to
\* the length.
PushInPlace ==
    /\ fail = NoFail
    /\ len(self) = len(old) + 1
    /\ len(old) % 8 # 0 =>
           /\ Len(as_bytes(self)) = Len(as_bytes(old))
           /\ Bit(LastByte(as_bytes(self)), len(old) % 8) = (IF arg[1] THEN 1 ELSE 0)
           /\ OtherBitsKept(as_bytes(old), as_bytes(self), len(old))

(* C4 as claimed: push(value) at len() % 8 = 0 appends exactly one byte     *)
(* that is 0xFF for true and 0x00 for false; at len() % 8 # 0 it appends no *)
(* byte and sets bit len() % 8 of the last byte to value in place; len()    *)
(* grows by exactly 1.                                                      *)
PushAppendsAllOnesByte ==
    op = "push" =>
        /\ PushInPlace
        /\ len(old) % 8 = 0 =>
               as_bytes(self) = Append(as_bytes(old), IF arg[1] THEN 255 ELSE 0)

(* C4 as amended: push(value) at len() % 8 = 0 appends exactly one byte     *)
(* that is 0x01 for true and 0x00 for false (only bit 0 carries the value,  *)
(* the padding stays 0); the rest as claimed.                               *)
PushAppendsOneBitByte ==
    op = "push" =>
        /\ PushInPlace
        /\ len(old) % 8 = 0 =>
               as_bytes(self) = Append(as_bytes(old), IF arg[1] THEN 1 ELSE 0)

\* push(true) on a vector of 8 bits appended the byte 0x01.
PushAppendsWitness ==
    /\ op = "push"
    /\ arg = <<TRUE>>
    /\ len(old) = 8
    /\ as_bytes(self) = Append(as_bytes(old), 1)

(* C5: with_bytes_mut heals the invariant.  When with_bytes_mut(f) returns, *)
(* len() and the byte count are unchanged, every byte but the last holds    *)
(* what f left there, and the last byte holds what f left ANDed with        *)
(* (1 << (len() % 8)) - 1 when len() % 8 # 0, and what f left otherwise, on *)
(* every call of any chain of calls.  arg[1] is the buffer as f left it.    *)
WithBytesMutHeals ==
    op = "with_bytes_mut" =>
        LET left == arg[1]
            n    == Len(left)
        IN  /\ fail = NoFail
            /\ len(self) = len(old)
            /\ Len(as_bytes(old)) = n
            /\ Len(as_bytes(self)) = n
            /\ \A i \in 1..(n - 1) : as_bytes(self)[i] = left[i]
            /\ n > 0 =>
                   as_bytes(self)[n] =
                       IF len(self) % 8 # 0
                       THEN left[n] % Pow2(len(self) % 8)
                       ELSE left[n]

\* f left 0xa5, 0xff in a 9-bit vector: the second byte is cut to its bit 0.
WithBytesMutWitness ==
    /\ op = "with_bytes_mut"
    /\ len(self) = 9
    /\ arg = << <<165, 255>> >>
    /\ as_bytes(self) = <<165, 1>>

(* C6: out-of-range mutation fails fast.  set(index, v) with index >= len(), *)
(* swap(i, j) with i >= len() or j >= len(), and vec[index] with             *)
(* index >= len() end in the out-of-bounds panic, with len() and every byte  *)
(* as before the call.                                                       *)
OutOfRangeFailsFast ==
    /\ (op = "set" /\ arg[1] >= len(old)) =>
           fail = IndexOutOfBounds /\ self = old
    /\ (op = "swap" /\ (arg[1] >= len(old) \/ arg[2] >= len(old))) =>
           fail = IndexOutOfBounds /\ self = old
    /\ (op = "index" /\ arg[1] >= len(old)) =>
           fail = AssertIndexInRange /\ self = old

\* swap(i, j) with i a set bit in range and j = len(), where bit 0 is clear.
OutOfRangeWitness ==
    /\ op = "swap"
    /\ arg[1] < len(old)
    /\ arg[2] = len(old)
    /\ Bit(as_bytes(old)[arg[1] \div 8 + 1], arg[1] % 8) = 1
    /\ Bit(as_bytes(old)[1], 0) = 0
    /\ fail = IndexOutOfBounds
    /\ self = old

(* C7: get(index) returns None exactly when index >= len(), never fails,    *)
(* otherwise returns Some(b) with b true iff bit index % 8, counted from    *)
(* the least significant bit, of byte index / 8 of as_bytes() is 1; and it  *)
(* leaves the vector as it was.                                             *)
GetReadsLsb0Bit ==
    op = "get" =>
        /\ fail = NoFail
        /\ self = old
        /\ ret = None <=> arg[1] >= len(old)
        /\ arg[1] < len(old) =>
               ret = Some(Bit(as_bytes(old)[arg[1] \div 8 + 1], arg[1] % 8) = 1)

\* get(1) of a vector whose first byte is 0b00000010: bit 1 is set, bit 6 is not.
GetReadsWitness ==
    /\ op = "get"
    /\ arg = <<1>>
    /\ len(old) = 9
    /\ as_bytes(old) = <<2, 1>>
    /\ ret = Some(TRUE)

(* C8: byte round-trip.  For every byte sequence B, the empty one          *)
(* included, from_bytes(B) has len() = 8 * |B|, as_bytes() = B with no byte *)
(* masked, and into_bytes() = B.  arg[1] is B.                              *)
FromBytesRoundTrip ==
    op = "from_bytes" =>
        /\ fail = NoFail
        /\ len(self) = 8 * Len(arg[1])
        /\ as_bytes(self) = arg[1]
        /\ into_bytes(self) = arg[1]

\* from_bytes of three bytes, the last one with its high bits set.
FromBytesWitness ==
    /\ op = "from_bytes"
    /\ arg = << <<165, 0, 255>> >>
    /\ len(self) = 24
    /\ as_bytes(self) = <<165, 0, 255>>

\* a and b hold the same sequence of bits, as len and get show it.
SameBits(a, b) ==
    /\ len(a) = len(b)
    /\ \A i \in 0..(len(a) - 1) : get(a, i).ret = get(b, i).ret

(* C9: equality is equality of the bit sequences.  Two vectors, each        *)
(* reached by any calls, compare equal iff they have the same len() and     *)
(* get(i) agrees for every i < len(); whatever the calls that led to them.  *)
EqIsBitSequenceEquality == eq(self, other) <=> SameBits(self, other)

\* with_bytes_mut wrote 0xff over the byte of a 3-bit vector, which was
\* cloned before: the two are equal again.
EqWitness ==
    /\ op = "with_bytes_mut"
    /\ arg = << <<255>> >>
    /\ len(self) = 3
    /\ other = BitVec(3, <<7>>)
    /\ eq(self, other)
    /\ SameBits(self, other)

(* C10: pop.  At len() = 0 it returns None and changes nothing, on every    *)
(* call; at len() = n > 0 it returns Some(v), v the value of get(n - 1)     *)
(* before the call, leaves len() = n - 1 and get(i) for every i < n - 1,    *)
(* clears the popped bit in storage, and removes the last byte exactly when *)
(* n - 1 is a multiple of 8.                                                *)
PopReturnsLastBit ==
    op = "pop" =>
        /\ fail = NoFail
        /\ len(old) = 0 => (ret = None /\ self = old)
        /\ len(old) > 0 =>
               LET n == len(old) IN
               /\ ret # None
               /\ ret = get(old, n - 1).ret
               /\ len(self) = n - 1
               /\ \A i \in 0..(n - 2) : get(self, i).ret = get(old, i).ret
               /\ Len(as_bytes(self)) =
                      IF (n - 1) % 8 = 0 THEN Len(as_bytes(old)) - 1
                      ELSE Len(as_bytes(old))
               /\ (n - 1) % 8 # 0 =>
                      /\ Bit(LastByte(as_bytes(self)), (n - 1) % 8) = 0
                      /\ OtherBitsKept(as_bytes(old), as_bytes(self), n - 1)
               /\ (n - 1) % 8 = 0 =>
                      as_bytes(self) = SubSeq(as_bytes(old), 1, Len(as_bytes(old)) - 1)

\* The second pop of the 0b11100011 scenario at 8 bits: 0b01100011 at 7 bits
\* becomes 0b00100011 at 6 bits.
PopWitness ==
    /\ op = "pop"
    /\ len(old) = 7
    /\ as_bytes(old) = <<99>>
    /\ ret = Some(TRUE)
    /\ len(self) = 6
    /\ as_bytes(self) = <<35>>

\* pop on an empty vector, again.
PopEmptyWitness ==
    /\ op = "pop"
    /\ len(old) = 0
    /\ ret = None
    /\ as_bytes(self) = <<>>

(* C11: truncate(newLen).  With newLen >= len() the call changes neither    *)
(* len() nor any byte.  With newLen < len() it leaves len() = newLen,       *)
(* ceil(newLen / 8) bytes, get(i) as it was for every i < newLen, and the   *)
(* bits of the new last byte at or above newLen % 8 cleared.                *)
TruncateShortens ==
    op = "truncate" =>
        LET n      == len(old)
            newLen == arg[1]
        IN  /\ fail = NoFail
            /\ newLen >= n =>
                   /\ len(self) = n
                   /\ as_bytes(self) = as_bytes(old)
            /\ newLen < n =>
                   /\ len(self) = newLen
                   /\ Len(as_bytes(self)) = CeilDiv8(newLen)
                   /\ \A i \in 0..(newLen - 1) : get(self, i).ret = get(old, i).ret
                   /\ newLen % 8 # 0 => PaddingIsZero(as_bytes(self), newLen % 8)

\* Nine bits, all set, truncated to four: the second byte goes and the high
\* half of the first is cleared.
TruncateWitness ==
    /\ op = "truncate"
    /\ arg = <<4>>
    /\ len(old) = 9
    /\ as_bytes(old) = <<255, 1>>
    /\ len(self) = 4
    /\ as_bytes(self) = <<15>>

(* C12: resize(newLen, value) on a vector of length n always leaves         *)
(* len() = newLen and get(i) as it was for i < min(n, newLen).  With        *)
(* newLen > n, get(i) = Some(value) for n <= i < newLen.  With newLen <= n  *)
(* the value plays no part: the vector left is the one truncate(newLen)     *)
(* leaves, and the one resize leaves with the other value.                  *)
ResizeSetsLength ==
    op = "resize" =>
        LET n      == len(old)
            newLen == arg[1]
            value  == arg[2]
        IN  /\ fail = NoFail
            /\ len(self) = newLen
            /\ \A i \in 0..(Min(n, newLen) - 1) : get(self, i).ret = get(old, i).ret
            /\ newLen > n =>
                   \A i \in n..(newLen - 1) : get(self, i).ret = Some(value)
            /\ newLen <= n =>
                   /\ len(self) = len(truncate(old, newLen).self)
                   /\ as_bytes(self) = as_bytes(truncate(old, newLen).self)
                   /\ len(self) = len(resize(old, newLen, ~value).self)
                   /\ as_bytes(self) = as_bytes(resize(old, newLen, ~value).self)

\* The bits 1, 0, 1 resized to nine bits with true: six bits are set, the
\* last of them in a second byte.
ResizeWitness ==
    /\ op = "resize"
    /\ arg = <<9, TRUE>>
    /\ len(old) = 3
    /\ as_bytes(old) = <<5>>
    /\ len(self) = 9
    /\ as_bytes(self) = <<253, 1>>

(* C13: from_elem(len, value), for every len and both values, returns a     *)
(* vector with len() = len, ceil(len / 8) bytes and get(i) = Some(value)    *)
(* for every i < len.  Every byte before the last is 0xFF for true and      *)
(* 0x00 for false; the bits of the last byte at or above len % 8 are 0;     *)
(* and with len % 8 = 0 the last byte is a full one too.                    *)
FromElemFills ==
    op = "from_elem" =>
        LET length == arg[1]
            value  == arg[2]
            bytes  == as_bytes(self)
            full   == IF value THEN 255 ELSE 0
        IN  /\ fail = NoFail
            /\ len(self) = length
            /\ Len(bytes) = CeilDiv8(length)
            /\ \A i \in 0..(length - 1) : get(self, i).ret = Some(value)
            /\ \A k \in 1..(Len(bytes) - 1) : bytes[k] = full
            /\ length % 8 # 0 =>
                   /\ PaddingIsZero(bytes, length % 8)
                   /\ \A j \in 0..((length % 8) - 1) :
                          Bit(LastByte(bytes), j) = (IF value THEN 1 ELSE 0)
            /\ length % 8 = 0 => \A k \in 1..Len(bytes) : bytes[k] = full

\* from_elem(31, true) is [0xff, 0xff, 0xff, 0x7f].
FromElemWitness ==
    /\ op = "from_elem"
    /\ arg = <<31, TRUE>>
    /\ len(self) = 31
    /\ as_bytes(self) = <<255, 255, 255, 127>>

\* The byte that packs S[first], ..., S[first + 7] from bit j up, least
\* significant bit first, with 0 where S has ended.
RECURSIVE PackedByte(_, _, _)
PackedByte(S, first, j) ==
    IF j = 8 THEN 0
    ELSE (IF first + j <= Len(S) /\ S[first + j] THEN Pow2(j) ELSE 0)
         + PackedByte(S, first, j + 1)

\* The booleans S packed into ceil(|S| / 8) bytes.
Packed(S) == [k \in 1..CeilDiv8(Len(S)) |-> PackedByte(S, 8 * (k - 1) + 1, 0)]

(* C14: boolean round trip.  The vector from_bools(S) returns, which is     *)
(* also the one From and FromIterator return for S, has len() = |S|,        *)
(* get(i) = Some(S[i]) for every i < |S|, as_bytes() equal to S packed      *)
(* least significant bit first into ceil(|S| / 8) bytes with zero padding,  *)
(* and an iterator that collects to exactly S.                              *)
BoolsRoundTrip ==
    op = "from_bools" =>
        LET S == arg[1]
        IN  /\ fail = NoFail
            /\ len(self) = Len(S)
            /\ \A i \in 0..(Len(S) - 1) : get(self, i).ret = Some(S[i + 1])
            /\ as_bytes(self) = Packed(S)
            /\ collect(iter(self)) = S
            /\ collect(into_iter(self)) = S
            /\ from(S) = Done(self, None)
            /\ from_iter(S) = Done(self, None)

\* The first nine of the booleans of test_convert_from_bools: [0x99, 0x01].
BoolsRoundTripWitness ==
    /\ op = "from_bools"
    /\ arg = <<<<TRUE, FALSE, FALSE, TRUE, TRUE, FALSE, FALSE, TRUE, TRUE>>>>
    /\ len(self) = 9
    /\ as_bytes(self) = <<153, 1>>
    /\ collect(iter(self)) = arg[1]

\* Bit i of the byte sequence, read least significant bit first.
BitAt(bytes, i) == Bit(bytes[i \div 8 + 1], i % 8) = 1

\* The values get(0), ..., get(n - 1) of a vector, read from its bytes.
BitsOf(v) == [i \in 1..len(v) |-> BitAt(as_bytes(v), i - 1)]

(* C15: iteration order and exact remaining count.  A fresh iterator over   *)
(* a vector of length n collects to get(0), ..., get(n - 1).  next() at     *)
(* cursor c < n returns Some of the bit at c and moves the cursor to c + 1; *)
(* at c = n it returns None and the cursor stays.  At every cursor c,       *)
(* size_hint() returns (r, Some(r)) and count() returns r, for r = n - c.   *)
(* No call changes the vector.                                              *)
IterationInOrder ==
    /\ op = "into_iter" => iter_index = 0 /\ collect(it) = BitsOf(self)
    /\ op \in {"next", "nth", "size_hint", "count", "last"} =>
           /\ fail = NoFail
           /\ self = old.vec
    /\ op = "next" =>
           LET c == old.index
               n == len(old.vec)
           IN  IF c < n
               THEN ret = Some(BitAt(as_bytes(old.vec), c)) /\ iter_index = c + 1
               ELSE ret = None /\ iter_index = c
    /\ op = "size_hint" =>
           LET r == len(old.vec) - old.index
           IN  r >= 0 /\ ret = <<r, Some(r)>> /\ iter_index = old.index
    /\ op = "count" =>
           LET r == len(old.vec) - old.index
           IN  r >= 0 /\ ret = <<r>>

\* Nine bits 1,0,0,1,1,0,0,1,1: the ninth next() returns the last of them,
\* from the second byte.
IterationWitness ==
    /\ op = "next"
    /\ as_bytes(self) = <<153, 1>>
    /\ len(self) = 9
    /\ old.index = 8
    /\ ret = Some(TRUE)
    /\ iter_index = 9

\* What is left of the iterator, with the cursor before and after.
IterationCountWitness ==
    /\ op = "count"
    /\ len(self) = 9
    /\ old.index = 4
    /\ ret = <<5>>

\* The outcome of calling next() m >= 1 times.
RECURSIVE next_times(_, _)
next_times(i, m) == IF m = 1 THEN next(i) ELSE next_times(next(i).self, m - 1)

(* C16: nth(k) is k + 1 calls of next().  At cursor c over a vector of      *)
(* length n, nth(k) returns Some(get(c + k)) and leaves the cursor at       *)
(* c + k + 1 when c + k < n, and otherwise returns None and leaves the      *)
(* cursor at n; it never panics, and the only bit it reads is below n.      *)
(* next() is nth(0).                                                        *)
NthSkipsForward ==
    /\ op = "nth" =>
           LET c == old.index
               n == len(old.vec)
               k == arg[1]
           IN  /\ fail = NoFail
               /\ IF c + k < n
                  THEN /\ ret = Some(BitAt(as_bytes(old.vec), c + k))
                       /\ ret = get(old.vec, c + k).ret
                       /\ iter_index = c + k + 1
                  ELSE /\ ret = None
                       /\ iter_index = n
               /\ k <= MaxBits + 1 =>
                      /\ ret = next_times(old, k + 1).ret
                      /\ it = next_times(old, k + 1).self
               /\ k = 0 => Done(it, ret) = next(old)
    /\ op = "next" => Done(it, ret) = nth(old, 0)

\* nth(3) at cursor 2 of 1,0,0,1,1,0,0,1,1 returns the bit at 5.
NthWitness ==
    /\ op = "nth"
    /\ arg = <<3>>
    /\ as_bytes(self) = <<153, 1>>
    /\ len(self) = 9
    /\ old.index = 2
    /\ ret = Some(FALSE)
    /\ iter_index = 6

\* nth past the end: None, and the cursor at the length.
NthPastEndWitness ==
    /\ op = "nth"
    /\ arg = <<5>>
    /\ len(self) = 9
    /\ old.index = 6
    /\ ret = None
    /\ iter_index = 9

(* C17: last().  At cursor c over a vector of length n, last() returns      *)
(* Some(get(n - 1)) when c < n and None when c = n: the last value that     *)
(* calling next() to the end returns, if there is one.                      *)
LastIsFinalNext ==
    op = "last" =>
        LET c    == old.index
            n    == len(old.vec)
            rest == collect(old)
        IN  /\ fail = NoFail
            /\ c <= n
            /\ c < n => ret = Some(BitAt(as_bytes(old.vec), n - 1))
            /\ c < n => ret = get(old.vec, n - 1).ret
            /\ c = n => ret = None
            /\ ret = IF rest = <<>> THEN None ELSE Some(rest[Len(rest)])

\* last() after five bits of 1,0,0,1,1,0,0,1,0 were taken: the ninth bit.
LastWitness ==
    /\ op = "last"
    /\ as_bytes(self) = <<153, 0>>
    /\ len(self) = 9
    /\ old.index = 5
    /\ ret = Some(FALSE)

\* last() on an exhausted iterator over a vector that ends in a set bit.
LastExhaustedWitness ==
    /\ op = "last"
    /\ as_bytes(self) = <<153, 1>>
    /\ old.index = 9
    /\ ret = None

\* nth(usize::MAX) on a fresh iterator: None, the cursor at the length.
NthMaxWitness ==
    /\ op = "nth"
    /\ arg = <<UsizeMax>>
    /\ len(self) = 9
    /\ old.index = 0
    /\ ret = None
    /\ iter_index = 9

(* C18: an in-range set is a single-bit update.  For index < len(), after   *)
(* set(index, value): get(index) = Some(value); get(j) is as it was for     *)
(* every j # index; len() and the number of bytes are as they were; the     *)
(* padding bits are still 0; and when the bit already had the value,        *)
(* as_bytes() is as it was.                                                 *)
SetUpdatesOneBit ==
    (op = "set" /\ arg[1] < len(old)) =>
        LET i     == arg[1]
            value == arg[2]
        IN  /\ fail = NoFail
            /\ get(self, i).ret = Some(value)
            /\ BitAt(as_bytes(self), i) = value
            /\ \A j \in 0..(len(old) - 1) :
                   j # i => get(self, j).ret = get(old, j).ret
            /\ len(self) = len(old)
            /\ OtherBitsKept(as_bytes(old), as_bytes(self), i)
            /\ len(self) % 8 # 0 => PaddingIsZero(as_bytes(self), len(self) % 8)
            /\ get(old, i).ret = Some(value) => as_bytes(self) = as_bytes(old)

\* Clearing bit 3 of nine set bits: 0xff, 0x01 becomes 0xf7, 0x01.
SetWitness ==
    /\ op = "set"
    /\ arg = <<3, FALSE>>
    /\ len(old) = 9
    /\ as_bytes(old) = <<255, 1>>
    /\ as_bytes(self) = <<247, 1>>

\* Setting the last bit of nine to the value it has.
SetSameValueWitness ==
    /\ op = "set"
    /\ arg = <<8, TRUE>>
    /\ len(old) = 9
    /\ as_bytes(old) = <<165, 1>>
    /\ as_bytes(self) = <<165, 1>>

(* C19: swap(i, j) with i, j < len() exchanges exactly the two bits.        *)
(* After it get(i) is the old get(j) and get(j) the old get(i); every       *)
(* other bit, len() and the padding are as they were; swap(i, i) changes    *)
(* nothing; and the same swap again restores the bytes.                     *)
SwapExchangesTwoBits ==
    (op = "swap" /\ arg[1] < len(old) /\ arg[2] < len(old)) =>
        LET i == arg[1]
            j == arg[2]
        IN  /\ fail = NoFail
            /\ get(self, i).ret = get(old, j).ret
            /\ get(self, j).ret = get(old, i).ret
            /\ BitAt(as_bytes(self), i) = BitAt(as_bytes(old), j)
            /\ BitAt(as_bytes(self), j) = BitAt(as_bytes(old), i)
            /\ len(self) = len(old)
            /\ Len(as_bytes(self)) = Len(as_bytes(old))
            /\ \A k \in 0..(8 * Len(as_bytes(old)) - 1) :
                   k \notin {i, j} =>
                       BitAt(as_bytes(self), k) = BitAt(as_bytes(old), k)
            /\ i = j => as_bytes(self) = as_bytes(old)
            /\ swap(self, i, j) = Done(old, None)

\* Bit 0 set and bit 8 clear, swapped across the two bytes.
SwapWitness ==
    /\ op = "swap"
    /\ arg = <<0, 8>>
    /\ len(old) = 9
    /\ as_bytes(old) = <<165, 0>>
    /\ as_bytes(self) = <<164, 1>>

(* C20 as claimed: reserve(additional) reserves room for at least           *)
(* `additional` more bits.  After a reserve(additional) that returned,      *)
(* capacity() >= len() + additional, the byte buffer's capacity being at    *)
(* least its byte count plus ceil(additional / 8), and len() and            *)
(* as_bytes() are as they were.                                             *)
ReserveMakesRoom ==
    (op = "reserve" /\ fail = NoFail) =>
        LET additional == arg[1]
        IN  /\ capacity_of(cap[1]) >= len(old) + additional
            /\ cap[1] >= Len(as_bytes(old)) + (additional + 7) \div 8
            /\ len(self) = len(old)
            /\ as_bytes(self) = as_bytes(old)

\* reserve(usize::MAX) on an empty vector without an allocation, in a build
\* without overflow checks: the call returns and the capacity is still 0.
ReserveOverflowWitness ==
    /\ op = "reserve"
    /\ arg = <<UsizeMax>>
    /\ fail = NoFail
    /\ len(old) = 0
    /\ cap = <<0>>
    /\ capacity_of(cap[1]) = 0

\* C20 short of the overflow: the claim for every additional with
\* additional + 7 <= usize::MAX.
ReserveMakesRoomBelowOverflow ==
    (op = "reserve" /\ ~bytes_in_bits_overflows(arg[1])) => ReserveMakesRoom

\* With overflow checks the same call panics.
ReserveOverflowPanics ==
    /\ op = "reserve"
    /\ arg = <<UsizeMax>>
    /\ fail = AddOverflow

\* reserve(6) on three bits in a one-byte allocation: nine bits need a
\* second byte.
ReserveGrowsWitness ==
    /\ op = "reserve"
    /\ arg = <<6>>
    /\ len(old) = 3
    /\ cap \in {<<2>>, <<3>>}
    /\ fail = NoFail

\* The number of bit characters in a text.
RECURSIVE BitChars(_)
BitChars(text) ==
    IF text = <<>> THEN 0
    ELSE (IF Head(text) \in {"1", "."} THEN 1 ELSE 0) + BitChars(Tail(text))

(* C21: Display.  For a vector of length n the text has exactly n bit       *)
(* characters, the one for bit i being "1" for true and "." for false, in   *)
(* the order of the indices; one space stands after every eighth bit        *)
(* character that another follows and nowhere else, so the text neither     *)
(* starts nor ends with a space and is not padded to a byte boundary.       *)
DisplayRendersBits ==
    op = "fmt" =>
        LET n    == len(old)
            text == ret
        IN  /\ fail = NoFail
            /\ self = old
            /\ BitChars(text) = n
            /\ Len(text) = n + (IF n = 0 THEN 0 ELSE (n - 1) \div 8)
            /\ \A i \in 0..(n - 1) :
                   text[i + i \div 8 + 1] =
                       (IF BitAt(as_bytes(old), i) THEN "1" ELSE ".")
            /\ \A p \in 1..Len(text) : text[p] = " " <=> p % 9 = 0
            /\ text # <<>> => text[1] # " " /\ text[Len(text)] # " "

\* from_bytes([0xef, 0xa5, 0x71]) renders as "1111.111 1.1..1.1 1...111."
DisplayWitness ==
    /\ op = "fmt"
    /\ len(old) = 24
    /\ as_bytes(old) = <<239, 165, 113>>
    /\ ret = <<"1", "1", "1", "1", ".", "1", "1", "1", " ",
               "1", ".", "1", ".", ".", "1", ".", "1", " ",
               "1", ".", ".", ".", "1", "1", "1", ".">>

\* Eleven bits: a full byte, a space, and three bits with no padding.
DisplayUnpaddedWitness ==
    /\ op = "fmt"
    /\ len(old) = 11
    /\ as_bytes(old) = <<239, 5>>
    /\ ret = <<"1", "1", "1", "1", ".", "1", "1", "1", " ", "1", ".", "1">>

\* The values a growing call appends.
Appended ==
    IF op = "push" THEN <<arg[1]>>
    ELSE IF op = "extend" THEN arg[1]
    ELSE [k \in 1..(arg[1] - len(old)) |-> arg[2]]

(* C22: removed bits never reappear.  A call that grows the vector (push,   *)
(* extend, a growing resize) from length m, in any state and so in one      *)
(* reached by pop, truncate or a shrinking resize, leaves get(i) as it was  *)
(* for every i < m and makes every bit at index >= m the value appended     *)
(* there, whatever was stored there before the vector was shortened.  For   *)
(* push(v): len() = m + 1 and get(m) = Some(v).                             *)
RemovedBitsStayGone ==
    (op \in {"push", "extend"} \/ (op = "resize" /\ arg[1] > len(old))) =>
        LET m == len(old)
        IN  /\ fail = NoFail
            /\ len(self) = m + Len(Appended)
            /\ \A i \in 0..(m - 1) :
                   /\ get(self, i).ret = get(old, i).ret
                   /\ BitAt(as_bytes(self), i) = BitAt(as_bytes(old), i)
            /\ \A i \in m..(len(self) - 1) :
                   /\ get(self, i).ret = Some(Appended[i - m + 1])
                   /\ BitAt(as_bytes(self), i) = Appended[i - m + 1]
            /\ IsPrefix(old, other) =>
                   \A i \in 0..(m - 1) : get(self, i).ret = get(other, i).ret

\* Nine set bits cut to four and resized to nine with false: the five bits
\* that were set before are clear.
RegrowWitness ==
    /\ op = "resize"
    /\ arg = <<9, FALSE>>
    /\ as_bytes(other) = <<255, 1>>
    /\ len(old) = 4
    /\ as_bytes(old) = <<15>>
    /\ len(self) = 9
    /\ as_bytes(self) = <<15, 0>>

\* Eight set bits, one popped, and false pushed in its place.
RegrowPushWitness ==
    /\ op = "push"
    /\ arg = <<FALSE>>
    /\ as_bytes(other) = <<255>>
    /\ len(old) = 7
    /\ as_bytes(old) = <<127>>
    /\ len(self) = 8
    /\ as_bytes(self) = <<127>>

\* Nine clear bits cut to six and extended with three set ones.
RegrowExtendWitness ==
    /\ op = "extend"
    /\ arg = <<<<TRUE, TRUE, TRUE>>>>
    /\ as_bytes(other) = <<0, 0>>
    /\ len(old) = 6
    /\ len(self) = 9
    /\ as_bytes(self) = <<192, 1>>

(* C23 as claimed: internal assertions are never violated.  In every state  *)
(* reached from the constructors through any calls, no call has ended in    *)
(* the assertion of validate_index (nbits <= 8 x #bytes), of pop            *)
(* (nbits = 8 x (#bytes - 1) before the byte is dropped) or of              *)
(* set_unused_zero (#bytes > 0 when nbits % 8 # 0): the only panics are the *)
(* index panics of set, swap and the index operator, on an index >= len().  *)
OnlyIndexPanics ==
    /\ fail \notin {AssertNbitsFit, AssertPopAligned, AssertLenPositive}
    /\ fail \in {NoFail, IndexOutOfBounds, AssertIndexInRange}
    /\ fail = IndexOutOfBounds =>
           \/ op = "set" /\ arg[1] >= len(old)
           \/ op = "swap" /\ (arg[1] >= len(old) \/ arg[2] >= len(old))
    /\ fail = AssertIndexInRange => op = "index" /\ arg[1] >= len(old)

\* from_elem(usize::MAX, true) in a build without overflow checks: no byte
\* is allocated and set_unused_zero's assertion fails.
FromElemAssertionWitness ==
    /\ op = "from_elem"
    /\ arg = <<UsizeMax, TRUE>>
    /\ fail = AssertLenPositive

\* With overflow checks the same call panics in bytes_in_bits.
FromElemOverflowPanics ==
    /\ op = "from_elem"
    /\ arg = <<UsizeMax, TRUE>>
    /\ fail = AddOverflow

\* An index panic: set at len().
IndexPanicWitness ==
    /\ op = "set"
    /\ arg[1] = len(old)
    /\ fail = IndexOutOfBounds

\* The cursor is inside 0..n, before and after every call.
CursorInRange ==
    /\ 0 <= iter_index /\ iter_index <= len(self)
    /\ op \in {"next", "nth", "size_hint", "count", "last"} =>
           0 <= old.index /\ old.index <= len(old.vec)

\* A next() or nth() that returns None leaves the cursor at n.
NoneLeavesCursorAtEnd ==
    (op \in {"next", "nth"} /\ ret = None) => iter_index = len(self)

\* What the calls return with the cursor at n.
ExhaustedAnswers ==
    (op \in {"next", "nth", "size_hint", "count", "last"}
        /\ old.index = len(old.vec)) =>
        /\ fail = NoFail
        /\ op \in {"next", "nth", "last"} => ret = None
        /\ op = "size_hint" => ret = <<0, Some(0)>>
        /\ op = "count" => ret = <<0>>
        /\ iter_index = len(self)

\* A step from a state with the cursor at n leaves it there.
StaysExhausted == iter_index = len(self) => iter_index' = len(self')

(* C24: iterator cursor bound and sticky exhaustion.  Through any next()    *)
(* and nth(k) calls on an iterator over a vector of length n the cursor     *)
(* stays in 0..n, so n - cursor in size_hint, count and nth never           *)
(* underflows.  A next() or nth() that returns None leaves the cursor at    *)
(* n, no step moves it from there, and with the cursor at n every next()    *)
(* and nth() returns None, size_hint() returns (0, Some(0)) and last()      *)
(* returns None.                                                            *)
CursorBoundedExhaustionSticky ==
    /\ [](CursorInRange /\ NoneLeavesCursorAtEnd /\ ExhaustedAnswers)
    /\ [][StaysExhausted]_vars

\* nth(2) on an exhausted iterator over nine bits: None, the cursor still
\* at 9.
StickyWitness ==
    /\ op = "nth"
    /\ arg = <<2>>
    /\ len(self) = 9
    /\ old.index = 9
    /\ ret = None
    /\ iter_index = 9

\* size_hint() on an exhausted iterator.
StickySizeHintWitness ==
    /\ op = "size_hint"
    /\ len(self) = 9
    /\ old.index = 9
    /\ ret = <<0, Some(0)>>

====
